---- MODULE Spec2Model ----
(***************************************************************************)
(* Model of the wsm session manager: the in-memory StorageMedia            *)
(* (memory_storage.go) and the SessionManager facade (wsm.go).             *)
(*                                                                         *)
(* Strings are sequences of one-character strings, so that URL escaping    *)
(* and unescaping are computed character by character.  Time is           *)
(* time.Now().Unix(), a count of seconds.  Every goroutine is a flow      *)
(* with a program counter; sync.Mutex is a holder variable that a Lock()   *)
(* can take only when nobody, the caller included, holds it.               *)
(***************************************************************************)
EXTENDS Integers, Sequences, FiniteSets, TLC

\* ---------------------------------------------------------------- bounds
MaxTime == 2          \* the clock runs over 0..MaxTime seconds
MaxCalls == 2         \* operations the request flows invoke in one run
MaxIds == 2           \* distinct identifiers the randomness source can yield

\* the manager's configured lifetime in seconds (NewSessionManager argument)
maxLifetime == 1

\* ---------------------------------------------------------------- flows
RequestFlows == {"r1", "r2"}
RoutineFlow == "t"
Flows == RequestFlows \cup {RoutineFlow}
None == "none"

\* ---------------------------------------------------------------- strings
\* characters base64.URLEncoding emits for the random bytes (four of its 64)
IdChars == <<"a", "b", "c", "d">>
BodyChars == {IdChars[k] : k \in 1..Len(IdChars)}
PadChar == "="

\* base64.URLEncoding.EncodeToString of 32 bytes: 43 alphabet characters
\* and one '=' of padding; here one character and the padding, MaxIds of
\* them in all.
EncodedIds == {<<IdChars[k], PadChar>> : k \in 1..MaxIds}
EmptyId == <<>>

\* url.QueryEscape: letters, digits, '-', '_', '.', '~' pass; ' ' becomes
\* '+'; every other byte becomes %XX ('=' is %3D).
shouldEscape(c) == c \notin (BodyChars \cup {"3", "D", "-", "_", ".", "~"})

EscapeChar(c) ==
    IF c = " " THEN <<"+">>
    ELSE IF ~shouldEscape(c) THEN <<c>>
    ELSE IF c = "=" THEN <<"%", "3", "D">>
    ELSE IF c = "%" THEN <<"%", "2", "5">>
    ELSE <<"%", "2", "B">>            \* '+', the one other character used

RECURSIVE QueryEscape(_)
QueryEscape(s) ==
    IF s = <<>> THEN <<>>
    ELSE EscapeChar(Head(s)) \o QueryEscape(Tail(s))

\* url.QueryUnescape: '%' must be followed by two hex digits, '+' is ' '.
ishex(c) == c \in {"0", "1", "2", "3", "4", "5", "6", "7", "8", "9",
                   "a", "b", "c", "d", "e", "f",
                   "A", "B", "C", "D", "E", "F"}

unhexPair(h, l) ==
    IF h = "3" /\ l = "D" THEN "="
    ELSE IF h = "2" /\ l = "5" THEN "%"
    ELSE IF h = "2" /\ l = "B" THEN "+"
    ELSE "?"                          \* some byte outside the alphabet

Malformed == <<"EscapeError">>

RECURSIVE QueryUnescape(_)
QueryUnescape(s) ==
    IF s = <<>> THEN <<>>
    ELSE IF Head(s) = "%" THEN
        IF Len(s) < 3 \/ ~ishex(s[2]) \/ ~ishex(s[3]) THEN Malformed
        ELSE LET rest == QueryUnescape(SubSeq(s, 4, Len(s)))
             IN  IF rest = Malformed THEN Malformed
                 ELSE <<unhexPair(s[2], s[3])>> \o rest
    ELSE LET rest == QueryUnescape(Tail(s))
         IN  IF rest = Malformed THEN Malformed
             ELSE <<IF Head(s) = "+" THEN " " ELSE Head(s)>> \o rest


\* ---------------------------------------------------------------- inputs
Ids == EncodedIds \cup {EmptyId}

\* request.Cookie(name): absent (an error), or present with a value
NoCookie == [present |-> FALSE, value |-> <<>>]
\* values a client sends: empty, a cookie StartSession issued, a broken one
CookieValues ==
    {<<>>} \cup {QueryEscape(i) : i \in EncodedIds} \cup {<<"%">>}
Cookies == {NoCookie} \cup {[present |-> TRUE, value |-> v] : v \in CookieValues}

\* the lifetime a direct caller hands to TerminateSessionOnExpiration
Lifetimes == {maxLifetime}

StoreOps == {"InitializeSession", "RetrieveSession", "UpdateSessionLastAccess",
             "DestroySession", "TerminateSessionOnExpiration"}

\* ---------------------------------------------------------------- state
VARIABLES
    now,             \* time.Now().Unix()
    sessionsIsNil,   \* MemoryStorage.sessions is the nil map
    sessions,        \* MemoryStorage.sessions: id -> [obj, lastAccessTime]
    activeSessions,  \* MemoryStorage.activeSessions
    storeLock,       \* holder of MemoryStorage's sync.Mutex
    managerLock,     \* holder of SessionManager's sync.Mutex
    pc,              \* where each flow stands
    call,            \* the operation each flow is in, and its arguments
    ret,             \* what the operation has returned to the flow
    objs,            \* every MemorySession allocated so far, by address
    removed,         \* addresses DestroySession or a sweep took out
    issued,          \* identifiers the randomness source has produced
    calls,           \* operations invoked by the request flows
    timerArmed,      \* a time.AfterFunc of the routine is pending
    routineStarted,  \* the application has launched the routine
    value,           \* MemorySession.value of every session, by address
    held             \* the session each flow's application code holds

vars == <<now, sessionsIsNil, sessions, activeSessions, storeLock, managerLock,
          pc, call, ret, objs, removed, issued, calls, timerArmed,
          routineStarted, value, held>>

store == <<sessionsIsNil, sessions, activeSessions>>

NoCall == [op |-> None, cookie |-> NoCookie, id |-> <<>>, L |-> 0, obj0 |-> 0,
           session |-> 0, key |-> None, val |-> None]
NoRet == [err |-> None, session |-> 0, setCookie |-> None, cookieValue |-> <<>>,
          got |-> None]

\* a Go map: nil (reads find nothing, a write panics) or allocated
NilMap == [isNil |-> TRUE, kv |-> <<>>]

\* keys and values application code stores in a session
Keys == {"username"}
Values == {"zyrx"}

Present(id) == id \in DOMAIN sessions

\* The store right after construction: the manager's table builds the zero
\* value MemoryStorage{}, whose sessions map is nil (no code allocates it);
\* the StorageMedia contract is also followed on a store whose map is
\* allocated, as a constructor of the package would build it.
Init ==
    /\ now = 0
    /\ sessionsIsNil \in BOOLEAN
    /\ sessions = <<>>
    /\ activeSessions = 0
    /\ storeLock = None
    /\ managerLock = None
    /\ pc = [f \in Flows |-> "idle"]
    /\ call = [f \in Flows |-> NoCall]
    /\ ret = [f \in Flows |-> NoRet]
    /\ objs = <<>>
    /\ removed = {}
    /\ issued = {}
    /\ calls = 0
    /\ timerArmed = FALSE
    /\ routineStarted = FALSE
    /\ value = <<>>
    /\ held = [f \in Flows |-> 0]

\* A call's result is handed to its caller at once: the return (Finish) of
\* a call that is done is the next step observed.
Running == \A g \in Flows : pc[g] # "done"

\* ---------------------------------------------------------------- clock
Tick ==
    /\ Running
    /\ now < MaxTime
    /\ now' = now + 1
    /\ UNCHANGED <<value, held,
                   sessionsIsNil, sessions, activeSessions, storeLock,
                   managerLock, pc, call, ret, objs, removed, issued, calls,
                   timerArmed, routineStarted>>

\* ---------------------------------------------------------------- calls
\* A request flow enters StartSession(response, request).
CallStartSession(f) ==
    /\ Running
    /\ pc[f] = "idle"
    /\ calls < MaxCalls
    /\ \E c \in Cookies :
         call' = [call EXCEPT ![f] = [NoCall EXCEPT !.op = "StartSession",
                                                    !.cookie = c,
                                                    !.obj0 = Len(objs)]]
    /\ pc' = [pc EXCEPT ![f] = "SS_lock"]
    /\ calls' = calls + 1
    /\ UNCHANGED <<value, held,
                   now, sessionsIsNil, sessions, activeSessions, storeLock,
                   managerLock, ret, objs, removed, issued, timerArmed,
                   routineStarted>>

\* A request flow enters EndSession(response, request): without a cookie, or
\* with an empty one, it returns before it takes the manager's lock.
CallEndSession(f) ==
    /\ Running
    /\ pc[f] = "idle"
    /\ calls < MaxCalls
    /\ \E c \in Cookies :
         /\ call' = [call EXCEPT ![f] = [NoCall EXCEPT !.op = "EndSession",
                                                       !.cookie = c,
                                                       !.obj0 = Len(objs)]]
         /\ pc' = [pc EXCEPT ![f] =
                     IF ~c.present \/ c.value = <<>> THEN "done" ELSE "ES_lock"]
    /\ calls' = calls + 1
    /\ UNCHANGED <<value, held,
                   now, sessionsIsNil, sessions, activeSessions, storeLock,
                   managerLock, ret, objs, removed, issued, timerArmed,
                   routineStarted>>

\* A flow calls the StorageMedia directly.  A direct caller of
\* InitializeSession keeps its contract: an identifier that is not in use.
StoreLockPc(op) ==
    CASE op = "InitializeSession" -> "IS_lock"
      [] op = "RetrieveSession" -> "RS_lock"
      [] op = "UpdateSessionLastAccess" -> "US_lock"
      [] op = "DestroySession" -> "DS_lock"
      [] op = "TerminateSessionOnExpiration" -> "TS_lock"

CallStore(f) ==
    /\ Running
    /\ pc[f] = "idle"
    /\ calls < MaxCalls
    /\ \E op \in StoreOps, id \in Ids, L \in Lifetimes :
         /\ op = "InitializeSession" => id \in EncodedIds \ issued
         /\ op = "TerminateSessionOnExpiration" => id = EmptyId
         /\ op # "TerminateSessionOnExpiration" => L = maxLifetime
         /\ call' = [call EXCEPT ![f] = [NoCall EXCEPT !.op = op, !.id = id,
                                                       !.L = L,
                                                       !.obj0 = Len(objs)]]
         /\ pc' = [pc EXCEPT ![f] = StoreLockPc(op)]
         /\ issued' = IF op = "InitializeSession" THEN issued \cup {id}
                      ELSE issued
    /\ calls' = calls + 1
    /\ UNCHANGED <<value, held,
                   now, sessionsIsNil, sessions, activeSessions, storeLock,
                   managerLock, ret, objs, removed, timerArmed, routineStarted>>

\* The application runs `go sessionManager.SessionsExpirationRoutine()`.
StartRoutine ==
    /\ Running
    /\ ~routineStarted
    /\ pc[RoutineFlow] = "idle"
    /\ routineStarted' = TRUE
    /\ call' = [call EXCEPT ![RoutineFlow] =
                  [NoCall EXCEPT !.op = "SessionsExpirationRoutine",
                                 !.L = maxLifetime, !.obj0 = Len(objs)]]
    /\ pc' = [pc EXCEPT ![RoutineFlow] = "SE_lock"]
    /\ UNCHANGED <<value, held,
                   now, sessionsIsNil, sessions, activeSessions, storeLock,
                   managerLock, ret, objs, removed, issued, calls, timerArmed>>

\* The timer armed by time.AfterFunc runs the routine again.
TimerFire ==
    /\ Running
    /\ timerArmed
    /\ pc[RoutineFlow] = "idle"
    /\ timerArmed' = FALSE
    /\ call' = [call EXCEPT ![RoutineFlow] =
                  [NoCall EXCEPT !.op = "SessionsExpirationRoutine",
                                 !.L = maxLifetime, !.obj0 = Len(objs)]]
    /\ pc' = [pc EXCEPT ![RoutineFlow] = "SE_lock"]
    /\ UNCHANGED <<value, held,
                   now, sessionsIsNil, sessions, activeSessions, storeLock,
                   managerLock, ret, objs, removed, issued, calls,
                   routineStarted>>

\* ---------------------------------------------------------------- locks
\* sync.Mutex.Lock: taken only when nobody holds it.  A flow that already
\* holds the mutex and locks it again waits for itself.
ManagerLockPcs == {"SS_lock", "ES_lock", "SE_lock"}
StoreLockPcs == {"IS_lock", "RS_lock", "US_lock", "DS_lock", "TS_lock",
                 "US_rlock", "DS_rlock"}

AfterLock(p) ==
    CASE p = "SS_lock" -> "SS_body"
      [] p = "ES_lock" -> "ES_body"
      [] p = "SE_lock" -> "SE_body"
      [] p = "IS_lock" -> "IS_body"
      [] p = "RS_lock" -> "RS_body"
      [] p = "US_lock" -> "US_body"
      [] p = "DS_lock" -> "DS_body"
      [] p = "TS_lock" -> "TS_body"
      [] p = "US_rlock" -> "US_rbody"
      [] p = "DS_rlock" -> "DS_rbody"

\* a Lock that does not wait for the holder
MutexFree_NoWait(holder, f) == TRUE

MutexFree(holder, f) == holder = None

LockManager(f) ==
    /\ Running
    /\ pc[f] \in ManagerLockPcs
    /\ MutexFree(managerLock, f)
    /\ managerLock' = f
    /\ pc' = [pc EXCEPT ![f] = AfterLock(pc[f])]
    /\ UNCHANGED <<value, held,
                   now, sessionsIsNil, sessions, activeSessions, storeLock,
                   call, ret, objs, removed, issued, calls, timerArmed,
                   routineStarted>>

LockStore(f) ==
    /\ Running
    /\ pc[f] \in StoreLockPcs
    /\ MutexFree(storeLock, f)
    /\ storeLock' = f
    /\ pc' = [pc EXCEPT ![f] = AfterLock(pc[f])]
    /\ UNCHANGED <<value, held,
                   now, sessionsIsNil, sessions, activeSessions, managerLock,
                   call, ret, objs, removed, issued, calls, timerArmed,
                   routineStarted>>

\* sync.Mutex.Unlock by a deferred call
Unlock(holder, f) == IF holder = f THEN None ELSE holder

\* where a StorageMedia call returns to
StoreReturnPc(f) ==
    CASE call[f].op = "StartSession" ->
            IF pc[f] = "IS_body" THEN "SS_cookie" ELSE "SS_retrieved"
      [] call[f].op = "EndSession" -> "ES_cookie"
      [] call[f].op = "SessionsExpirationRoutine" -> "SE_after"
      [] OTHER -> "done"

\* ---------------------------------------------------------------- store
\* InitializeSession: the counter is incremented, then the session is
\* written into the map; the write into a nil map panics, and the deferred
\* Unlock calls of the store and of a calling StartSession run.
\* The session's value map is declared and never made: it is the nil map
\* (lines 62-66).
sessionValue == NilMap

InitializeSession(f) ==
    /\ Running
    /\ pc[f] = "IS_body"
    /\ activeSessions' = activeSessions + 1
    /\ objs' = Append(objs, [id |-> call[f].id,
                             byManager |-> call[f].op = "StartSession"])
    /\ value' = Append(value, sessionValue)
    /\ storeLock' = Unlock(storeLock, f)
    /\ IF sessionsIsNil
       THEN /\ sessions' = sessions
            /\ ret' = [ret EXCEPT ![f] = [NoRet EXCEPT !.err = "panic"]]
            /\ managerLock' = Unlock(managerLock, f)
            /\ pc' = [pc EXCEPT ![f] = "done"]
       ELSE /\ sessions' = (call[f].id :> [obj |-> Len(objs) + 1,
                                           lastAccessTime |-> now]) @@ sessions
            /\ ret' = [ret EXCEPT ![f] = [NoRet EXCEPT !.err = "nil",
                                                      !.session = Len(objs) + 1]]
            /\ managerLock' = managerLock
            /\ pc' = [pc EXCEPT ![f] = StoreReturnPc(f)]
    /\ UNCHANGED <<held, now, sessionsIsNil, call, removed, issued, calls,
                   timerArmed, routineStarted>>

\* RetrieveResult without the existence test: a missing entry is returned
\* as a nil session and no error.
RetrieveResult_NoExistenceTest(id) ==
    [NoRet EXCEPT !.err = "nil",
                  !.session = IF Present(id) THEN sessions[id].obj ELSE 0]

\* RetrieveSession's lookup: the session, or SessionNotExist
RetrieveResult(id) ==
    IF Present(id)
    THEN [NoRet EXCEPT !.err = "nil", !.session = sessions[id].obj]
    ELSE [NoRet EXCEPT !.err = "SessionNotExist"]

\* RetrieveSession, called by StartSession or directly (RS_body), or from
\* inside UpdateSessionLastAccess and DestroySession (US_rbody, DS_rbody).
RetrieveSession(f) ==
    /\ Running
    /\ pc[f] \in {"RS_body", "US_rbody", "DS_rbody"}
    /\ ret' = [ret EXCEPT ![f] = RetrieveResult(call[f].id)]
    /\ storeLock' = Unlock(storeLock, f)
    /\ pc' = [pc EXCEPT ![f] =
                CASE pc[f] = "RS_body" -> StoreReturnPc(f)
                  [] pc[f] = "US_rbody" -> "US_retrieved"
                  [] pc[f] = "DS_rbody" -> "DS_retrieved"]
    /\ UNCHANGED <<value, held,
                   now, sessionsIsNil, sessions, activeSessions, managerLock,
                   call, objs, removed, issued, calls, timerArmed,
                   routineStarted>>

\* UpdateSessionLastAccess: with the mutex held it calls RetrieveSession,
\* which locks the same mutex (US_rlock); what follows the call is the
\* timestamp write.
UpdateSessionLastAccess(f) ==
    /\ Running
    /\ pc[f] \in {"US_body", "US_retrieved"}
    /\ IF pc[f] = "US_body"
       THEN /\ pc' = [pc EXCEPT ![f] = "US_rlock"]
            /\ UNCHANGED <<sessions, ret, storeLock>>
       ELSE /\ sessions' =
                 IF ret[f].err = "SessionNotExist" THEN sessions
                 ELSE [sessions EXCEPT ![call[f].id].lastAccessTime = now]
            /\ ret' = [ret EXCEPT ![f] = [NoRet EXCEPT !.err = ret[f].err]]
            /\ storeLock' = Unlock(storeLock, f)
            /\ pc' = [pc EXCEPT ![f] = StoreReturnPc(f)]
    /\ UNCHANGED <<value, held,
                   now, sessionsIsNil, activeSessions, managerLock, call,
                   objs, removed, issued, calls, timerArmed, routineStarted>>

\* DestroySession: with the mutex held it calls RetrieveSession, which
\* locks the same mutex (DS_rlock); what follows the call is the delete and
\* the decrement.
DestroySession(f) ==
    /\ Running
    /\ pc[f] \in {"DS_body", "DS_retrieved"}
    /\ IF pc[f] = "DS_body"
       THEN /\ pc' = [pc EXCEPT ![f] = "DS_rlock"]
            /\ UNCHANGED <<sessions, activeSessions, removed, ret, storeLock>>
       ELSE /\ IF ret[f].err = "SessionNotExist"
               THEN UNCHANGED <<sessions, activeSessions, removed>>
               ELSE /\ sessions' = [i \in DOMAIN sessions \ {call[f].id} |->
                                      sessions[i]]
                    /\ activeSessions' = activeSessions - 1
                    /\ removed' = removed \cup {ret[f].session}
            /\ ret' = [ret EXCEPT ![f] = [NoRet EXCEPT !.err = ret[f].err]]
            /\ storeLock' = Unlock(storeLock, f)
            /\ pc' = [pc EXCEPT ![f] = StoreReturnPc(f)]
    /\ UNCHANGED <<value, held,
                   now, sessionsIsNil, managerLock, call, objs, issued, calls,
                   timerArmed, routineStarted>>

\* the sweep's test on one session (memory_storage.go line 117)
sweepEvicts(lastAccessTime, L, t) == lastAccessTime + L > t

\* TerminateSessionOnExpiration: one pass over the map under the mutex,
\* deleting every entry the test selects and decrementing once per delete
\* (a delete during range is safe in Go, and a nil map ranges over nothing).
\* The pass is taken to fall within one second of the clock.
TerminateSessionOnExpiration(f) ==
    /\ Running
    /\ pc[f] = "TS_body"
    /\ LET gone == {i \in DOMAIN sessions :
                      sweepEvicts(sessions[i].lastAccessTime, call[f].L, now)}
       IN  /\ sessions' = [i \in DOMAIN sessions \ gone |-> sessions[i]]
           /\ activeSessions' = activeSessions - Cardinality(gone)
           /\ removed' = removed \cup {sessions[i].obj : i \in gone}
    /\ ret' = [ret EXCEPT ![f] = [NoRet EXCEPT !.err = "nil"]]
    /\ storeLock' = Unlock(storeLock, f)
    /\ pc' = [pc EXCEPT ![f] = StoreReturnPc(f)]
    /\ UNCHANGED <<value, held,
                   now, sessionsIsNil, managerLock, call, objs, issued, calls,
                   timerArmed, routineStarted>>

\* ---------------------------------------------------------------- manager
\* generateUniqueSessionID: the encoding of 32 fresh random bytes, or the
\* empty string when the randomness source cannot be read.  Random bytes
\* are taken never to repeat an identifier produced before.
generateUniqueSessionID == (EncodedIds \ issued) \cup {EmptyId}

\* the branch StartSession takes on the request's cookie (line 162)
NoSessionCookie(c) == ~c.present \/ c.value = <<>>

\* what StartSession returns after RetrieveSession (lines 173-178)
StartSessionResult(r) ==
    IF r.err # "nil" THEN [NoRet EXCEPT !.err = r.err] ELSE r

\* StartSession under the manager's lock: the branch on the cookie and the
\* call into the StorageMedia (SS_body); after InitializeSession the cookie
\* is set (SS_cookie); after RetrieveSession the result is passed on
\* (SS_retrieved).  The deferred Unlock runs at every return.
StartSession(f) ==
    /\ Running
    /\ pc[f] \in {"SS_body", "SS_cookie", "SS_retrieved"}
    /\ CASE pc[f] = "SS_body" ->
              IF NoSessionCookie(call[f].cookie)
              THEN \E sessionId \in generateUniqueSessionID :
                     /\ call' = [call EXCEPT ![f].id = sessionId]
                     /\ issued' = issued \cup ({sessionId} \ {EmptyId})
                     /\ pc' = [pc EXCEPT ![f] = "IS_lock"]
                     /\ UNCHANGED <<ret, managerLock>>
              ELSE LET sessionId == QueryUnescape(call[f].cookie.value)
                   IN  IF sessionId = Malformed
                       THEN /\ ret' = [ret EXCEPT ![f] =
                                         [NoRet EXCEPT !.err = "EscapeError"]]
                            /\ managerLock' = Unlock(managerLock, f)
                            /\ pc' = [pc EXCEPT ![f] = "done"]
                            /\ UNCHANGED <<call, issued>>
                       ELSE /\ call' = [call EXCEPT ![f].id = sessionId]
                            /\ pc' = [pc EXCEPT ![f] = "RS_lock"]
                            /\ UNCHANGED <<ret, managerLock, issued>>
         [] pc[f] = "SS_cookie" ->
              /\ ret' = [ret EXCEPT ![f].setCookie = "live",
                                    ![f].cookieValue = QueryEscape(call[f].id)]
              /\ managerLock' = Unlock(managerLock, f)
              /\ pc' = [pc EXCEPT ![f] = "done"]
              /\ UNCHANGED <<call, issued>>
         [] pc[f] = "SS_retrieved" ->
              /\ ret' = [ret EXCEPT ![f] = StartSessionResult(ret[f])]
              /\ managerLock' = Unlock(managerLock, f)
              /\ pc' = [pc EXCEPT ![f] = "done"]
              /\ UNCHANGED <<call, issued>>
    /\ UNCHANGED <<value, held,
                   now, sessionsIsNil, sessions, activeSessions, storeLock,
                   objs, removed, calls, timerArmed, routineStarted>>

\* the key EndSession hands to DestroySession (line 191)
EndSessionKey(c) == c.value

\* EndSession under the manager's lock: the call of DestroySession
\* (ES_body), then the expired cookie (ES_cookie) and the deferred Unlock.
EndSession(f) ==
    /\ Running
    /\ pc[f] \in {"ES_body", "ES_cookie"}
    /\ IF pc[f] = "ES_body"
       THEN /\ call' = [call EXCEPT ![f].id = EndSessionKey(call[f].cookie)]
            /\ pc' = [pc EXCEPT ![f] = "DS_lock"]
            /\ UNCHANGED <<ret, managerLock>>
       ELSE /\ ret' = [ret EXCEPT ![f] = [NoRet EXCEPT !.setCookie = "expired"]]
            /\ managerLock' = Unlock(managerLock, f)
            /\ pc' = [pc EXCEPT ![f] = "done"]
            /\ UNCHANGED call
    /\ UNCHANGED <<value, held,
                   now, sessionsIsNil, sessions, activeSessions, storeLock,
                   objs, removed, issued, calls, timerArmed, routineStarted>>

\* SessionsExpirationRoutine under the manager's lock: the sweep (SE_body),
\* then time.AfterFunc arms the next run and the deferred Unlock runs.
SessionsExpirationRoutine(f) ==
    /\ Running
    /\ pc[f] \in {"SE_body", "SE_after"}
    /\ IF pc[f] = "SE_body"
       THEN /\ pc' = [pc EXCEPT ![f] = "TS_lock"]
            /\ UNCHANGED <<call, ret, managerLock, timerArmed>>
       ELSE /\ timerArmed' = TRUE
            /\ managerLock' = Unlock(managerLock, f)
            /\ call' = [call EXCEPT ![f] = NoCall]
            /\ ret' = [ret EXCEPT ![f] = NoRet]
            /\ pc' = [pc EXCEPT ![f] = "idle"]
    /\ UNCHANGED <<value, held,
                   now, sessionsIsNil, sessions, activeSessions, storeLock,
                   objs, removed, issued, calls, routineStarted>>

\* The caller takes the result; the flow is free for its next request.
Finish(f) ==
    /\ pc[f] = "done"
    /\ pc' = [pc EXCEPT ![f] = "idle"]
    /\ call' = [call EXCEPT ![f] = NoCall]
    /\ ret' = [ret EXCEPT ![f] = NoRet]
    /\ UNCHANGED <<value, held,
                   now, sessionsIsNil, sessions, activeSessions, storeLock,
                   managerLock, objs, removed, issued, calls, timerArmed,
                   routineStarted>>

\* ---------------------------------------------------------------- session
\* Application code keeps the session a successful call returned.
Keep(f) ==
    /\ pc[f] = "done"
    /\ ret[f].err = "nil"
    /\ ret[f].session # 0
    /\ held' = [held EXCEPT ![f] = ret[f].session]
    /\ pc' = [pc EXCEPT ![f] = "idle"]
    /\ call' = [call EXCEPT ![f] = NoCall]
    /\ ret' = [ret EXCEPT ![f] = NoRet]
    /\ UNCHANGED <<value, now, sessionsIsNil, sessions, activeSessions,
                   storeLock, managerLock, objs, removed, issued, calls,
                   timerArmed, routineStarted>>

SessionOps == {"SetValue", "GetValue", "DeleteValue"}

SessionPc(op) ==
    CASE op = "SetValue" -> "SV_body"
      [] op = "GetValue" -> "GV_body"
      [] op = "DeleteValue" -> "DV_body"

\* methods that write the value map, and all that touch it
WritingPcs == {"SV_body", "DV_body"}
SessionPcs == {"SV_body", "GV_body", "DV_body"}

\* Application code calls a method of the session it holds; the methods
\* take no lock.
CallSession(f) ==
    /\ Running
    /\ pc[f] = "idle"
    /\ held[f] # 0
    /\ \E op \in SessionOps, k \in Keys, v \in Values :
         /\ call' = [call EXCEPT ![f] = [NoCall EXCEPT !.op = op,
                                                       !.session = held[f],
                                                       !.key = k, !.val = v]]
         /\ pc' = [pc EXCEPT ![f] = SessionPc(op)]
    /\ UNCHANGED <<value, held, now, sessionsIsNil, sessions, activeSessions,
                   storeLock, managerLock, ret, objs, removed, issued, calls,
                   timerArmed, routineStarted>>

\* m[k] = v on a Go map: a panic on the nil map
MapAssign(m, k, v) == [m EXCEPT !.kv = (k :> v) @@ m.kv]
\* m[k]: the zero value (nil) when the key is missing or the map is nil
MapAccess(m, k) == IF k \in DOMAIN m.kv THEN m.kv[k] ELSE "nil"
\* delete(m, k): nothing to do when the key is missing or the map is nil
MapDelete(m, k) == [m EXCEPT !.kv = [j \in DOMAIN m.kv \ {k} |-> m.kv[j]]]

\* MemorySession.SetValue: session.value[key] = value; return nil
SetValue(f) ==
    /\ Running
    /\ pc[f] = "SV_body"
    /\ IF value[call[f].session].isNil
       THEN /\ value' = value
            /\ ret' = [ret EXCEPT ![f] = [NoRet EXCEPT !.err = "panic"]]
       ELSE /\ value' = [value EXCEPT ![call[f].session] =
                           MapAssign(@, call[f].key, call[f].val)]
            /\ ret' = [ret EXCEPT ![f] = [NoRet EXCEPT !.err = "nil"]]
    /\ pc' = [pc EXCEPT ![f] = "done"]
    /\ UNCHANGED <<held, now, sessionsIsNil, sessions, activeSessions,
                   storeLock, managerLock, call, objs, removed, issued, calls,
                   timerArmed, routineStarted>>

\* MemorySession.GetValue: return session.value[key]
GetValue(f) ==
    /\ Running
    /\ pc[f] = "GV_body"
    /\ ret' = [ret EXCEPT ![f] =
                 [NoRet EXCEPT !.err = "nil",
                               !.got = MapAccess(value[call[f].session],
                                                 call[f].key)]]
    /\ pc' = [pc EXCEPT ![f] = "done"]
    /\ UNCHANGED <<value, held, now, sessionsIsNil, sessions, activeSessions,
                   storeLock, managerLock, call, objs, removed, issued, calls,
                   timerArmed, routineStarted>>

\* MemorySession.DeleteValue: delete(session.value, key); return nil
DeleteValue(f) ==
    /\ Running
    /\ pc[f] = "DV_body"
    /\ value' = [value EXCEPT ![call[f].session] = MapDelete(@, call[f].key)]
    /\ ret' = [ret EXCEPT ![f] = [NoRet EXCEPT !.err = "nil"]]
    /\ pc' = [pc EXCEPT ![f] = "done"]
    /\ UNCHANGED <<held, now, sessionsIsNil, sessions, activeSessions,
                   storeLock, managerLock, call, objs, removed, issued, calls,
                   timerArmed, routineStarted>>

\* ---------------------------------------------------------------- system
\* one step of a flow inside the StorageMedia
StoreStep(f) ==
    \/ LockStore(f)
    \/ InitializeSession(f)
    \/ RetrieveSession(f)
    \/ DestroySession(f)
    \/ TerminateSessionOnExpiration(f)
    \/ Finish(f)

\* one step of a flow inside the SessionManager or the StorageMedia it calls
Step(f) ==
    \/ StoreStep(f)
    \/ LockManager(f)
    \/ StartSession(f)
    \/ EndSession(f)
    \/ SessionsExpirationRoutine(f)

\* The application as the README sets it up: request flows call
\* StartSession and EndSession, the routine sweeps.  The manager's
\* StorageMedia is reachable through the manager only.
Next ==
    \/ Tick
    \/ \E f \in RequestFlows : CallStartSession(f)
    \/ \E f \in RequestFlows : CallEndSession(f)
    \/ StartRoutine
    \/ TimerFire
    \/ \E f \in Flows : Step(f)

Spec == Init /\ [][Next]_vars

\* A MemoryStorage used through the StorageMedia interface by concurrent
\* callers, with no manager in front of it.
StoreNext ==
    \/ Tick
    \/ \E f \in RequestFlows : CallStore(f)
    \/ \E f \in RequestFlows : StoreStep(f)
    \/ \E f \in RequestFlows : UpdateSessionLastAccess(f)

StoreSpec == Init /\ [][StoreNext]_vars

\* Application code at work: request flows obtain sessions from
\* StartSession, keep them and call their methods.
SessionNext ==
    \/ \E f \in RequestFlows : CallStartSession(f)
    \/ \E f \in RequestFlows : LockManager(f)
    \/ \E f \in RequestFlows : StartSession(f)
    \/ \E f \in RequestFlows : LockStore(f)
    \/ \E f \in RequestFlows : InitializeSession(f)
    \/ \E f \in RequestFlows : RetrieveSession(f)
    \/ \E f \in RequestFlows : Finish(f)
    \/ \E f \in RequestFlows : Keep(f)
    \/ \E f \in RequestFlows : CallSession(f)
    \/ \E f \in RequestFlows : SetValue(f)
    \/ \E f \in RequestFlows : GetValue(f)
    \/ \E f \in RequestFlows : DeleteValue(f)

SessionSpec == Init /\ [][SessionNext]_vars

\* The Go scheduler runs every runnable goroutine: a flow whose next step
\* is possible takes it, and the runtime runs a timer that is due.
FairSpec ==
    Spec /\ WF_vars(TimerFire) /\ \A f \in Flows : WF_vars(Step(f))

\* ---------------------------------------------------------------- claims
\* A flow waits for a mutex it holds itself: it never returns.
SelfBlocked(f) ==
    \/ pc[f] \in StoreLockPcs /\ storeLock = f
    \/ pc[f] \in ManagerLockPcs /\ managerLock = f

\* the flow f takes a step
Moves(f) == pc'[f] # pc[f]

\* the cookie StartSession issued for the session at address o
IssuedCookie(o) == [present |-> TRUE, value |-> QueryEscape(objs[o].id)]

\* C1: in every reachable state the counter activeSessions equals the
\* number of entries of the sessions collection.
C1_CounterEqualsEntries ==
    activeSessions = Cardinality(DOMAIN sessions)

C5_AbsentIdIsSignalled ==
    \A f \in RequestFlows :
       call[f].op \in {"RetrieveSession", "UpdateSessionLastAccess",
                       "DestroySession"} =>
          /\ (storeLock = f /\ ~Present(call[f].id)) => ~SelfBlocked(f)
          /\ (pc[f] = "done" /\ ~Present(call[f].id)) =>
                ret[f].err = "SessionNotExist"

C8_StaleCookieIsAnError ==
    [][\A f \in RequestFlows :
         (call[f].op = "StartSession" /\ ~NoSessionCookie(call[f].cookie)
            /\ Moves(f)) =>
            /\ UNCHANGED <<sessions, activeSessions, objs>>
            /\ (pc[f] = "RS_body" /\ ~Present(call[f].id)) =>
                  /\ pc'[f] = "SS_retrieved"
                  /\ ret'[f].err = "SessionNotExist"
            /\ (pc[f] = "SS_retrieved" /\ ret[f].err = "SessionNotExist") =>
                  /\ pc'[f] = "done"
                  /\ ret'[f] = [NoRet EXCEPT !.err = "SessionNotExist"]]_vars

\* C8 witness: a StartSession with a non-empty cookie has returned
\* SessionNotExist while the store holds another session.
C8_Witness ==
    \E f \in RequestFlows :
       /\ pc[f] = "done"
       /\ call[f].op = "StartSession"
       /\ ~NoSessionCookie(call[f].cookie)
       /\ ret[f].err = "SessionNotExist"
       /\ ret[f].session = 0
       /\ ret[f].setCookie = None
       /\ DOMAIN sessions # {}

C11_InitializeThenRetrieve ==
    [][\A f \in RequestFlows :
         (pc[f] = "IS_body" /\ Moves(f) /\ ~Present(call[f].id)) =>
            LET r == RetrieveResult(call[f].id)'
            IN  /\ ret'[f].err = "nil"
                /\ r.err = "nil"
                /\ r.session = ret'[f].session
                /\ r.session \in 1..Len(objs')
                /\ objs'[r.session].id = call[f].id
                /\ \A k \in Keys : MapAccess(value'[r.session], k) = "nil"]_vars

C13_ConcurrentInitialize ==
    ( /\ Len(objs) >= 1
      /\ calls = Len(objs)
      /\ \A f \in RequestFlows : pc[f] \in {"idle", "done"} ) =>
         /\ activeSessions = Len(objs)
         /\ \A o \in 1..Len(objs) :
               /\ RetrieveResult(objs[o].id).err = "nil"
               /\ RetrieveResult(objs[o].id).session = o

\* C14: once the application has invoked SessionsExpirationRoutine, the
\* sweep TerminateSessionOnExpiration runs again and again forever.
C14_SweepsForever ==
    [](routineStarted => []<>(pc[RoutineFlow] = "TS_body"))

C16_NoFlowBlockedForever ==
    \A f \in Flows :
       /\ ~SelfBlocked(f)
       /\ (pc[f] \in ManagerLockPcs /\ managerLock \in Flows) =>
             ~SelfBlocked(managerLock)
       /\ (pc[f] \in StoreLockPcs /\ storeLock \in Flows) =>
             ~SelfBlocked(storeLock)

\* a flow is in a section of the manager that touches the StorageMedia:
\* past manager.Lock() and not yet returned
InManagerSection(f) ==
    /\ call[f].op \in {"StartSession", "EndSession",
                       "SessionsExpirationRoutine"}
    /\ pc[f] \notin {"idle", "done"} \cup ManagerLockPcs

\* a flow is inside a StorageMedia method the manager called
InStoreCall(f) ==
    /\ InManagerSection(f)
    /\ pc[f] \in StoreLockPcs \cup {"IS_body", "RS_body", "DS_body", "TS_body",
                                    "DS_rbody", "DS_retrieved"}

\* C17: at most one flow is in a storage-touching section of the manager,
\* that flow holds the manager's lock, and every call the manager makes into
\* the StorageMedia runs while its flow holds that lock.
C17_ManagerSectionsExclusive ==
    /\ \A f, g \in Flows :
          (InManagerSection(f) /\ InManagerSection(g)) => f = g
    /\ \A f \in Flows : InManagerSection(f) => managerLock = f
    /\ \A f \in Flows : InStoreCall(f) => managerLock = f

\* C17 witness: a flow is inside InitializeSession for StartSession, holding
\* the manager's lock, while another flow waits at manager.Lock().
C17_Witness ==
    \E f, g \in Flows :
       /\ f # g
       /\ pc[f] = "IS_body"
       /\ InStoreCall(f)
       /\ managerLock = f
       /\ pc[g] \in ManagerLockPcs

C19_NoRuntimeFault ==
    sessionsIsNil => \A f \in Flows : ret[f].err # "panic"

====
